---- MODULE Spec2Model ----
(***************************************************************************)
(* Model of meeting-transcriber: the audio recorder (windowing buffer and  *)
(* bounded chunk queue, audio.py), the transcription consumer loop and the *)
(* transcript log (main.py, tui.py).                                       *)
(*                                                                         *)
(* Sample arrays (numpy arrays of samples) are represented run-length      *)
(* encoded: a sample is identified by its position in the device stream,   *)
(* and an array is the sequence of maximal runs [lo, hi) of consecutive    *)
(* positions it contains, in array order.                                  *)
(***************************************************************************)
EXTENDS Integers, Sequences, FiniteSets, TLC

\* ------------------------------------------------------------------ bounds
MaxCalls == 13      \* callbacks delivered by a device with fixed block size
MaxVaried == 4      \* callbacks delivered by a device with varying block size
MaxBlock == 3       \* largest block of a device with varying block size
MaxSkipped == 1     \* callbacks delivered while paused
MaxSessionCalls == 2 \* callbacks delivered in a session with key events
MaxKeys == 2        \* update and save requests in a session
MaxCommands == 1    \* commands submitted in a session
MaxLiveCalls == 1   \* callbacks delivered in a session checked for progress
MaxEntries == 3     \* entries of a short transcript given to the splitter
MaxReplyLen == 3    \* characters of a generated boundary reply
MaxScan == 4        \* passes of the boundary scan loop
MaxLog == 3         \* entries of the log given to serialized updates
MaxUpdates == 4     \* serialized update calls

\* --------------------------------------------------------- program constants
QueueMaxsize == 10  \* queue.Queue(maxsize=10)

Min(a, b) == IF a < b THEN a ELSE b
Max(a, b) == IF a > b THEN a ELSE b

\* ------------------------------------------------------------ sample arrays
Span(lo, hi) == [lo |-> lo, hi |-> hi]

\* the block of n samples the device delivers at stream position p
Block(p, n) == <<Span(p, p + n)>>

RECURSIVE ALen(_)
\* len(array)
ALen(a) == IF a = <<>> THEN 0 ELSE (a[1].hi - a[1].lo) + ALen(Tail(a))

\* np.concatenate([a, b])
AConcat(a, b) ==
    IF a = <<>> THEN b
    ELSE IF b = <<>> THEN a
    ELSE IF a[Len(a)].hi = b[1].lo
         THEN SubSeq(a, 1, Len(a) - 1)
                \o <<Span(a[Len(a)].lo, b[1].hi)>>
                \o Tail(b)
         ELSE a \o b

RECURSIVE Concatenate(_)
\* np.concatenate(list of arrays)
Concatenate(l) == IF l = <<>> THEN <<>> ELSE AConcat(l[1], Concatenate(Tail(l)))

RECURSIVE ALast(_, _)
\* the last n samples of a (all of a when it is shorter), n >= 0
ALast(a, n) ==
    IF n <= 0 \/ a = <<>> THEN <<>>
    ELSE LET r == a[Len(a)]
             m == r.hi - r.lo
         IN IF m >= n THEN <<Span(r.hi - n, r.hi)>>
            ELSE AConcat(ALast(SubSeq(a, 1, Len(a) - 1), n - m), <<r>>)

RECURSIVE AFirst(_, _)
\* the first n samples of a (all of a when it is shorter), n >= 0
AFirst(a, n) ==
    IF n <= 0 \/ a = <<>> THEN <<>>
    ELSE LET r == a[1]
             m == r.hi - r.lo
         IN IF m >= n THEN <<Span(r.lo, r.lo + n)>>
            ELSE AConcat(<<r>>, AFirst(Tail(a), n - m))

\* Python slice a[i:] (a negative i counts from the end; -0 is 0)
SliceFrom(a, i) ==
    IF i < 0 THEN ALast(a, Min(0 - i, ALen(a)))
    ELSE ALast(a, ALen(a) - Min(i, ALen(a)))

\* ------------------------------------------------------------------ state
VARIABLES
    env,              \* configuration and environment of the session
    audio_queue,      \* AudioRecorder._audio_queue, oldest window first
    buffer,           \* AudioRecorder._buffer: list of blocks
    buffer_samples,   \* AudioRecorder._buffer_samples
    keep_buffer,      \* AudioRecorder._keep_buffer: <<>> is None, else <<array>>
    stream,           \* AudioRecorder._stream is an active input stream
    is_recording,     \* AudioRecorder._is_recording
    is_paused,        \* AudioRecorder._is_paused
    rec_lock,         \* holder of AudioRecorder._lock
    cb_pc,            \* position of the running capture callback
    cb_chunk,         \* the callback's local window `chunk`
    cb_seen,          \* the queue as it was when put_nowait raised Full
    stop_pc,          \* position of AudioRecorder.stop
    pos,              \* samples the device has delivered so far
    calls,            \* callback invocations so far
    skipped,          \* callback invocations that returned at the pause test
    accepted,         \* samples appended to the accumulation buffer so far
    emitted,          \* windows built by the callback, in order
    flushed,          \* windows enqueued by stop()
    running,          \* the consumer loop's _running flag
    cons_pc,          \* position of the transcription consumer
    audio,            \* the consumer's local `audio`: <<>> is None, else <<window>>
    text,             \* the consumer's local `text`
    entry,            \* the consumer's local `entry`: <<>> or <<TranscriptEntry>>
    obtained,         \* windows the consumer got, each with its entry's index or -1
    transcripts,      \* the Transcript Log
    transcript_index, \* the next-index counter
    log_lock,         \* holder of the Transcript Log lock
    ui_pc,            \* position of the control (key/event) thread
    keys,             \* update and save requests handled so far
    pauses,           \* pause/resume requests handled so far
    updating,         \* the busy flag _updating
    frames,           \* MinutesUpdater.update calls in flight
    update_count,     \* MinutesUpdater.update_count
    last_update_index,\* MinutesUpdater.last_update_index
    current_minutes,  \* MinutesUpdater.current_minutes: 0 is '', k the k-th document
    gen_count,        \* documents generated so far
    transcripts_copy,\* the control thread's local `transcripts_copy`
    files,            \* what has been written to the session directory
    result,           \* the UpdateResult last returned: <<>> or <<result>>
    committed,        \* update calls that returned success after a synthesis
    declined,         \* update requests declined at the busy test
    synthesized,      \* entry ranges of the syntheses behind the document
    commands,         \* command workers (_send_to_claude) in flight
    submitted,        \* commands submitted in the command input so far
    mr_pc,            \* position of MapReduceGenerator.generate
    boundaries,       \* _detect_boundaries: the local `boundaries`
    window_start,     \* _detect_boundaries: the local `window_start`
    chunks,           \* the Chunks returned by split
    points_list,      \* generate: the local `points_list`
    backend_calls,    \* backend.generate calls issued by the generator
    reply,            \* the last boundary-detection reply: <<>> or <<text>>
    detected          \* what _parse_boundaries made of that reply

recVars == <<audio_queue, buffer, buffer_samples, keep_buffer, stream,
             is_recording, is_paused, rec_lock, cb_pc, cb_chunk, cb_seen,
             stop_pc>>
histVars == <<pos, calls, skipped, accepted, emitted, flushed>>
consVars == <<cons_pc, audio, text, entry, obtained>>
logVars == <<transcripts, transcript_index, log_lock>>
updVars == <<updating, frames, update_count, last_update_index,
             current_minutes, gen_count, result, committed, synthesized>>
uiVars == <<ui_pc, keys, pauses, transcripts_copy, files, declined>>
cmdVars == <<commands, submitted>>
splitVars == <<mr_pc, boundaries, window_start, chunks, points_list,
               backend_calls, reply, detected>>
sessionVars == <<recVars, histVars, running, consVars, logVars, updVars,
                 uiVars, cmdVars>>
vars == <<env, splitVars, sessionVars>>

\* AudioRecorder.__init__: int(sample_rate * step_duration)
step_samples == env.sample_rate * env.step_duration
\* AudioRecorder.__init__: int(sample_rate * window_duration)
window_samples == env.sample_rate * env.window_duration

\* ----------------------------------------------------------- queue.Queue
QueueFullOffByOne(q) == Len(q) > QueueMaxsize

\* Queue.full()
QueueFull(q) == Len(q) >= QueueMaxsize

\* Queue.put(item, block): returns, raises Full, or (blocking) waits
QueuePut(q, item, block) ==
    IF ~QueueFull(q) THEN [done |-> TRUE, raised |-> FALSE, q |-> Append(q, item)]
    ELSE IF block THEN [done |-> FALSE, raised |-> FALSE, q |-> q]
    ELSE [done |-> TRUE, raised |-> TRUE, q |-> q]

PutNowaitBlocking(q, item) == QueuePut(q, item, TRUE)

\* the callback's insert: self._audio_queue.put_nowait(chunk)
PutNowait(q, item) == QueuePut(q, item, FALSE)

\* stop()'s insert: self._audio_queue.put(chunk)
PutBlocking(q, item) == QueuePut(q, item, TRUE)

QueueGetNewest(q) == [q |-> SubSeq(q, 1, Len(q) - 1), item |-> q[Len(q)]]

\* Queue.get(timeout) on a queue that holds an item: removes the oldest
QueueGet(q) == [q |-> Tail(q), item |-> Head(q)]

\* Queue.get_nowait(): removes the oldest item or raises Empty
GetNowait(q) ==
    IF q = <<>> THEN [raised |-> TRUE, q |-> q, item |-> <<>>]
    ELSE [raised |-> FALSE, q |-> Tail(q), item |-> Head(q)]

\* ------------------------------------------------------- windowing buffer
BuildChunkUncut(keep, new_audio, ws) ==
    IF keep # <<>> THEN AConcat(keep[1], new_audio) ELSE new_audio

\* the window built from the retained tail and the new audio, cut to the
\* window length
BuildChunk(keep, new_audio, ws) ==
    LET chunk == IF keep # <<>> THEN AConcat(keep[1], new_audio) ELSE new_audio
    IN IF ALen(chunk) > ws THEN SliceFrom(chunk, 0 - ws) ELSE chunk

NextKeepStep(chunk, ws, ss) ==
    IF ALen(chunk) > ss THEN SliceFrom(chunk, 0 - ss) ELSE chunk

\* the tail retained for the next window
NextKeep(chunk, ws, ss) ==
    LET keep_samples == ws - ss
    IN IF ALen(chunk) > keep_samples THEN SliceFrom(chunk, 0 - keep_samples)
       ELSE chunk

StepReachedStrict(n, ss) == n > ss

\* the step test of the callback
StepReached(n, ss) == n >= ss

\* ------------------------------------------------------------------ texts
\* A text is a sequence of characters, each a one-character string.
Whitespace == {" ", "\n"}

Digits == <<"0", "1", "2", "3", "4", "5", "6", "7", "8", "9">>

IsDigit(c) == \E k \in 1..Len(Digits) : Digits[k] = c

DigitValue(c) == (CHOOSE k \in 1..Len(Digits) : Digits[k] = c) - 1

RECURSIVE LStrip(_)
LStrip(s) == IF s # <<>> /\ s[1] \in Whitespace THEN LStrip(Tail(s)) ELSE s

RECURSIVE RStrip(_)
RStrip(s) ==
    IF s # <<>> /\ s[Len(s)] \in Whitespace
    THEN RStrip(SubSeq(s, 1, Len(s) - 1)) ELSE s

\* str.strip()
StrStrip(s) == RStrip(LStrip(s))

\* str.replace(' ', '')
ReplaceSpace(s) == SelectSeq(s, LAMBDA c : c # " ")

RECURSIVE StrSplit(_, _)
\* str.split(sep) for a one-character sep: always at least one part
StrSplit(s, sep) ==
    IF \A k \in 1..Len(s) : s[k] # sep THEN <<s>>
    ELSE LET k == CHOOSE j \in 1..Len(s) :
                    s[j] = sep /\ \A h \in 1..(j - 1) : s[h] # sep
         IN <<SubSeq(s, 1, k - 1)>> \o StrSplit(SubSeq(s, k + 1, Len(s)), sep)

RECURSIVE Decimal(_)
Decimal(ds) ==
    IF ds = <<>> THEN 0
    ELSE Decimal(SubSeq(ds, 1, Len(ds) - 1)) * 10 + DigitValue(ds[Len(ds)])

\* int(part): surrounding whitespace is ignored, then an optional sign and
\* one or more digits; anything else raises ValueError (ok is FALSE)
PyInt(part) ==
    LET t == StrStrip(part)
        signed == t # <<>> /\ t[1] \in {"+", "-"}
        body == IF signed THEN Tail(t) ELSE t
    IN IF body # <<>> /\ \A k \in 1..Len(body) : IsDigit(body[k])
       THEN [ok |-> TRUE,
             value |-> IF signed /\ t[1] = "-" THEN 0 - Decimal(body)
                       ELSE Decimal(body)]
       ELSE [ok |-> FALSE, value |-> 0]

RECURSIVE Insert(_, _)
Insert(x, sorted) ==
    IF sorted = <<>> \/ x <= sorted[1] THEN <<x>> \o sorted
    ELSE <<sorted[1]>> \o Insert(x, Tail(sorted))

RECURSIVE Sorted(_)
\* sorted(list)
Sorted(l) == IF l = <<>> THEN <<>> ELSE Insert(l[1], Sorted(Tail(l)))

\* ------------------------------------------------------------ ChunkSplitter
CHUNK_THRESHOLD == 20000
BOUNDARY_DETECTION_MAX == 30000

\* the two-kana reply "nashi" ("none"), one element per character
Nashi == <<"NA", "SHI">>

InWindowOrAtStart(idx, min_idx, max_idx) ==
    min_idx <= idx /\ idx < max_idx

InWindowOrAtEnd(idx, min_idx, max_idx) == min_idx < idx /\ idx <= max_idx

\* min_idx < idx < max_idx
InWindow(idx, min_idx, max_idx) == min_idx < idx /\ idx < max_idx

WithinThresholdStrict(n) == n < CHUNK_THRESHOLD

\* len(total_text) <= CHUNK_THRESHOLD
WithinThreshold(n) == n <= CHUNK_THRESHOLD

RECURSIVE CollectBoundaries(_, _, _)
\* _parse_boundaries: the loop over the comma-separated parts
CollectBoundaries(parts, min_idx, max_idx) ==
    IF parts = <<>> THEN <<>>
    ELSE LET idx == PyInt(parts[1])
             rest == CollectBoundaries(Tail(parts), min_idx, max_idx)
         IN IF idx.ok /\ InWindow(idx.value, min_idx, max_idx)
            THEN <<idx.value>> \o rest
            ELSE rest

\* _parse_boundaries(result, min_idx, max_idx)
ParseBoundaries(res, min_idx, max_idx) ==
    LET r == StrStrip(res)
    IN IF r = Nashi \/ r = <<>> THEN <<>>
       ELSE Sorted(CollectBoundaries(StrSplit(ReplaceSpace(r), ","),
                                     min_idx, max_idx))

\* rendered entry lengths around CHUNK_THRESHOLD and BOUNDARY_DETECTION_MAX
EntryLens == {11, 9999, 10000, 25000, 30001}

\* a transcript entry as the splitter sees it: len is len(str(entry))
Entry(i, n) == [index |-> i, len |-> n]

\* the transcript whose entries render to the lengths in l
Transcript(l) == [i \in 1..Len(l) |-> Entry(i - 1, l[i])]

RECURSIVE SumLen(_)
SumLen(ts) == IF ts = <<>> THEN 0 ELSE ts[1].len + SumLen(Tail(ts))

\* len('\n'.join(str(t) for t in transcripts))
JoinedLen(ts) == IF ts = <<>> THEN 0 ELSE SumLen(ts) + (Len(ts) - 1)

\* Chunk(entries, start_index, end_index)
Chunk(entries, start_index, end_index) ==
    [entries |-> entries, start_index |-> start_index,
     end_index |-> end_index]

\* split, threshold branch and final fallback: the whole transcript
WholeChunk(ts) == Chunk(ts, 0, Len(ts) - 1)

RECURSIVE WindowScan(_, _, _, _)
\* _detect_boundaries: the for loop that fills window_entries from index i
\* (0-based); count is len(window_entries), text_len is window_text_len
WindowScan(ts, i, count, text_len) ==
    IF i >= Len(ts) THEN [count |-> count, text_len |-> text_len]
    ELSE IF text_len + ts[i + 1].len > BOUNDARY_DETECTION_MAX
    THEN [count |-> count, text_len |-> text_len]
    ELSE WindowScan(ts, i + 1, count + 1, text_len + ts[i + 1].len + 1)

\* the scanning window that starts at ws
Window(ts, ws) == WindowScan(ts, ws, 0, 0)

\* len(str(n)) for an entry number
NumDigits(n) == IF n < 10 THEN 1 ELSE IF n < 100 THEN 2 ELSE 3

RECURSIVE WindowTextLen(_, _, _)
\* len(window_text): count lines 'number: entry' from entry ws on, joined
\* by newlines
WindowTextLen(ts, ws, count) ==
    IF count = 0 THEN 0
    ELSE NumDigits(ws) + 2 + ts[ws + 1].len
         + (IF count > 1 THEN 1 ELSE 0) + WindowTextLen(ts, ws + 1, count - 1)

\* _detect_boundaries: the while loop goes on to a backend call
ScanContinues(ts, ws) ==
    /\ ws < Len(ts)
    /\ Window(ts, ws).count # 0
    /\ ~(Window(ts, ws).text_len < CHUNK_THRESHOLD)

MidPointRoundedUp(ws, count) == ws + (count + 1) \div 2

\* mid_point = window_start + len(window_entries) // 2
MidPoint(ws, count) == ws + count \div 2

PySliceShort(ts, a, b) == SubSeq(ts, a + 1, b - 1)

\* transcripts[a:b] with 0 <= a <= b <= len(transcripts)
PySlice(ts, a, b) == SubSeq(ts, a + 1, b)

RECURSIVE ChunksFrom(_, _, _)
\* split: the loop over the boundaries, then the remaining entries
ChunksFrom(ts, bs, start_idx) ==
    IF bs = <<>>
    THEN IF start_idx < Len(ts)
         THEN <<Chunk(PySlice(ts, start_idx, Len(ts)), start_idx,
                      Len(ts) - 1)>>
         ELSE <<>>
    ELSE IF bs[1] > start_idx
    THEN <<Chunk(PySlice(ts, start_idx, bs[1]), start_idx, bs[1] - 1)>>
         \o ChunksFrom(ts, Tail(bs), bs[1])
    ELSE ChunksFrom(ts, Tail(bs), start_idx)

\* split: the chunks built from the detected boundaries
MakeChunks(ts, bs) ==
    IF ChunksFrom(ts, bs, 0) # <<>> THEN ChunksFrom(ts, bs, 0)
    ELSE <<WholeChunk(ts)>>

\* the generator before generate() is called
SplitIdle ==
    /\ mr_pc = "idle"
    /\ boundaries = <<>>
    /\ window_start = 0
    /\ chunks = <<>>
    /\ points_list = <<>>
    /\ backend_calls = <<>>
    /\ reply = <<>>
    /\ detected = <<>>

\* ------------------------------------------------------------ environments
\* Scenario A: 16 kHz, step 5 s, window 15 s, fed 5 s of samples at a time.
EnvScenarioA ==
    [sample_rate |-> 16000, step_duration |-> 5, window_duration |-> 15,
     blocks |-> {16000 * 5}, max_calls |-> MaxCalls, max_keys |-> 0,
     max_commands |-> 0, max_pauses |-> 0, speech |-> {"t"}, mode |-> "cli",
     version_history |-> FALSE]

\* Devices with varying block sizes, over several step/window configurations.
EnvVaried ==
    { [sample_rate |-> 1, step_duration |-> c[1], window_duration |-> c[2],
       blocks |-> 1..MaxBlock, max_calls |-> MaxVaried, max_keys |-> 0,
       max_commands |-> 0, max_pauses |-> 1, speech |-> {""}, mode |-> "tui",
       version_history |-> FALSE] :
      c \in {<<2, 5>>, <<3, 4>>, <<2, 2>>} }

\* Sessions with update and save requests, in both front ends.
EnvSession ==
    { [sample_rate |-> 1, step_duration |-> 2, window_duration |-> 5,
       blocks |-> {2}, max_calls |-> MaxSessionCalls, max_keys |-> MaxKeys,
       max_commands |-> MaxCommands, max_pauses |-> 0, speech |-> {"", "t"}, mode |-> m,
       version_history |-> v] :
      m \in {"cli", "tui"}, v \in BOOLEAN }

\* A device whose blocks are half a step long, so that samples are pending
\* between emissions while the queue fills.
EnvHalfStep ==
    [sample_rate |-> 1, step_duration |-> 2, window_duration |-> 5,
     blocks |-> {1}, max_calls |-> 2 * MaxCalls, max_keys |-> 0,
     max_commands |-> 0, max_pauses |-> 0, speech |-> {"t"}, mode |-> "tui",
     version_history |-> FALSE]

Envs == {EnvScenarioA, EnvHalfStep} \cup EnvVaried \cup EnvSession

\* the session state after construction of the recorder, the log and the
\* updater
SessionInit ==
    /\ audio_queue = <<>>
    /\ buffer = <<>>
    /\ buffer_samples = 0
    /\ keep_buffer = <<>>
    /\ stream = FALSE
    /\ is_recording = FALSE
    /\ is_paused = FALSE
    /\ rec_lock = "none"
    /\ cb_pc = "idle"
    /\ cb_chunk = <<>>
    /\ cb_seen = <<>>
    /\ stop_pc = "idle"
    /\ pos = 0
    /\ calls = 0
    /\ skipped = 0
    /\ accepted = 0
    /\ emitted = <<>>
    /\ flushed = <<>>
    /\ running = (env.mode = "tui")
    /\ cons_pc = "none"
    /\ audio = <<>>
    /\ text = ""
    /\ entry = <<>>
    /\ obtained = <<>>
    /\ transcripts = <<>>
    /\ transcript_index = 0
    /\ log_lock = "none"
    /\ ui_pc = "init"
    /\ keys = 0
    /\ pauses = 0
    /\ updating = FALSE
    /\ frames = <<>>
    /\ update_count = 0
    /\ last_update_index = 0
    /\ current_minutes = 0
    /\ gen_count = 0
    /\ transcripts_copy = <<>>
    /\ files = [minutes |-> <<>>, transcript |-> <<>>]
    /\ result = <<>>
    /\ committed = 0
    /\ declined = 0
    /\ synthesized = <<>>
    /\ commands = <<>>
    /\ submitted = 0

Init ==
    /\ env \in Envs
    /\ SessionInit
    /\ SplitIdle

\* MeetingTranscriber.run / MeetingTranscriberApp.on_mount: start the
\* recorder and the consumer
Run ==
    /\ ui_pc = "init"
    /\ ui_pc' = "idle"
    /\ running' = TRUE
    /\ cons_pc' = "loop"
    /\ stream' = TRUE
    /\ is_recording' = TRUE
    /\ is_paused' = FALSE
    /\ UNCHANGED <<env, splitVars, cmdVars, audio_queue, buffer, buffer_samples, keep_buffer,
                   rec_lock, cb_pc, cb_chunk, cb_seen, stop_pc, histVars,
                   audio, text, entry, obtained, logVars, updVars, keys,
                   pauses, transcripts_copy, files, declined>>

\* ------------------------------------------------------- capture callback
\* _audio_callback while paused: the block is dropped
AudioCallbackPaused(n) ==
    /\ stream /\ cb_pc = "idle" /\ calls < env.max_calls
    /\ is_paused
    /\ skipped < MaxSkipped
    /\ pos' = pos + n
    /\ calls' = calls + 1
    /\ skipped' = skipped + 1
    /\ UNCHANGED <<env, splitVars, cmdVars, recVars, accepted, emitted, flushed, running,
                   consVars, logVars, updVars, uiVars>>

\* the window the callback builds when block n completes a step
NewChunk(n) ==
    BuildChunk(keep_buffer, Concatenate(Append(buffer, Block(pos, n))),
               window_samples)

\* an invocation with block n can run to its return or to queue.Full: the
\* recorder lock is free and the insert does not wait
CbStartReady(n) ==
    /\ rec_lock = "none"
    /\ StepReached(buffer_samples + n, step_samples)
         => PutNowait(audio_queue, NewChunk(n)).done

\* the insert that follows the eviction does not wait
CbReputReady == PutNowait(audio_queue, cb_chunk).done

\* _audio_callback: accumulate the block; at the step, build the window,
\* retain the tail and try to enqueue the window
AudioCallback(n) ==
    /\ stream /\ cb_pc = "idle" /\ calls < env.max_calls
    /\ ~is_paused
    /\ CbStartReady(n)
    /\ pos' = pos + n
    /\ calls' = calls + 1
    /\ accepted' = accepted + n
    /\ LET buf1 == Append(buffer, Block(pos, n))
           bs1 == buffer_samples + n
       IN IF ~StepReached(bs1, step_samples)
          THEN /\ buffer' = buf1
               /\ buffer_samples' = bs1
               /\ UNCHANGED <<keep_buffer, audio_queue, cb_pc, cb_chunk,
                              cb_seen, rec_lock, emitted>>
          ELSE LET chunk == NewChunk(n)
                   r == PutNowait(audio_queue, chunk)
               IN /\ keep_buffer' = <<NextKeep(chunk, window_samples,
                                               step_samples)>>
                  /\ buffer' = <<>>
                  /\ buffer_samples' = 0
                  /\ emitted' = Append(emitted, [chunk |-> chunk, fresh |-> bs1])
                  /\ IF r.raised
                     THEN /\ cb_pc' = "full"
                          /\ cb_chunk' = chunk
                          /\ cb_seen' = audio_queue
                          /\ rec_lock' = "cb"
                          /\ UNCHANGED audio_queue
                     ELSE /\ audio_queue' = r.q
                          /\ UNCHANGED <<cb_pc, cb_chunk, cb_seen, rec_lock>>
    /\ UNCHANGED <<env, splitVars, cmdVars, stream, is_recording, is_paused, stop_pc, skipped,
                   flushed, running, consVars, logVars, updVars, uiVars>>

\* _audio_callback after queue.Full: discard the oldest window
\* (get_nowait); on queue.Empty the new window is dropped
CbEvict ==
    /\ cb_pc = "full"
    /\ LET g == GetNowait(audio_queue)
       IN IF g.raised
          THEN /\ cb_pc' = "idle"
               /\ cb_chunk' = <<>>
               /\ cb_seen' = <<>>
               /\ rec_lock' = "none"
               /\ UNCHANGED audio_queue
          ELSE /\ audio_queue' = g.q
               /\ cb_pc' = "reput"
               /\ UNCHANGED <<cb_chunk, cb_seen, rec_lock>>
    /\ UNCHANGED <<env, splitVars, cmdVars, buffer, buffer_samples, keep_buffer, stream,
                   is_recording, is_paused, stop_pc, histVars, running,
                   consVars, logVars, updVars, uiVars>>

\* _audio_callback after the eviction: enqueue the new window
CbReput ==
    /\ cb_pc = "reput"
    /\ CbReputReady
    /\ audio_queue' = PutNowait(audio_queue, cb_chunk).q
    /\ cb_pc' = "idle"
    /\ cb_chunk' = <<>>
    /\ cb_seen' = <<>>
    /\ rec_lock' = "none"
    /\ UNCHANGED <<env, splitVars, cmdVars, buffer, buffer_samples, keep_buffer, stream,
                   is_recording, is_paused, stop_pc, histVars, running,
                   consVars, logVars, updVars, uiVars>>

\* ------------------------------------------------------ AudioRecorder.stop
FlushChunkLastBlock(buf) == buf[Len(buf)]

\* the final window of stop(): np.concatenate(self._buffer)
FlushChunk(buf) == Concatenate(buf)

\* stop(): clear the recording flag and stop and close the stream; the
\* stream is stopped only once the running callback has returned
StopStream ==
    /\ stop_pc = "begin"
    /\ is_recording' = FALSE
    /\ IF stream THEN cb_pc = "idle" /\ stream' = FALSE ELSE UNCHANGED stream
    /\ stop_pc' = "lock"
    /\ UNCHANGED <<env, splitVars, cmdVars, audio_queue, buffer, buffer_samples, keep_buffer,
                   is_paused, rec_lock, cb_pc, cb_chunk, cb_seen, histVars,
                   running, consVars, logVars, updVars, uiVars>>

\* stop(): take the recorder lock for the flush
StopLock ==
    /\ stop_pc = "lock"
    /\ rec_lock = "none"
    /\ rec_lock' = "stop"
    /\ stop_pc' = "flush"
    /\ UNCHANGED <<env, splitVars, cmdVars, audio_queue, buffer, buffer_samples, keep_buffer,
                   stream, is_recording, is_paused, cb_pc, cb_chunk, cb_seen,
                   histVars, running, consVars, logVars, updVars, uiVars>>

\* stop(): flush what has accumulated as one window (a blocking put),
\* release the lock and return to finalization
StopFlush ==
    /\ stop_pc = "flush"
    /\ IF buffer # <<>>
       THEN LET chunk == FlushChunk(buffer)
                r == PutBlocking(audio_queue, chunk)
            IN /\ r.done
               /\ audio_queue' = r.q
               /\ buffer' = <<>>
               /\ buffer_samples' = 0
               /\ flushed' = Append(flushed, chunk)
       ELSE UNCHANGED <<audio_queue, buffer, buffer_samples, flushed>>
    /\ rec_lock' = "none"
    /\ stop_pc' = "done"
    /\ ui_pc' = "fin_snap"
    /\ UNCHANGED <<env, splitVars, cmdVars, keep_buffer, stream, is_recording, is_paused, cb_pc,
                   cb_chunk, cb_seen, pos, calls, skipped, accepted, emitted,
                   running, consVars, logVars, updVars, keys, pauses,
                   transcripts_copy, files, declined>>

\* ------------------------------------------------- transcription consumer
\* len('[HH:MM:SS] ')
TimestampLen == 11

\* TranscriptEntry(timestamp, text, index); len is len(str(entry)), with one
\* character standing for the text
TranscriptEntry(i, t, n) == [index |-> i, text |-> t, len |-> n]

\* the loop test `while self._running`
ConsLoop ==
    /\ cons_pc = "loop"
    /\ cons_pc' = IF running THEN "get" ELSE "done"
    /\ UNCHANGED <<env, splitVars, cmdVars, recVars, histVars, running, audio, text, entry,
                   obtained, logVars, updVars, uiVars>>

\* recorder.get_audio_chunk(timeout): the oldest window, or None when the
\* queue stays empty until the timeout
ConsGet ==
    /\ cons_pc = "get"
    /\ IF audio_queue = <<>>
       THEN /\ cons_pc' = "loop"
            /\ UNCHANGED <<audio_queue, audio, obtained>>
       ELSE LET g == QueueGet(audio_queue)
            IN /\ audio' = <<g.item>>
               /\ audio_queue' = g.q
               /\ obtained' = Append(obtained,
                                     [chunk |-> g.item, entry |-> -1])
               /\ cons_pc' = "transcribe"
    /\ UNCHANGED <<env, splitVars, cmdVars, buffer, buffer_samples, keep_buffer, stream,
                   is_recording, is_paused, rec_lock, cb_pc, cb_chunk,
                   cb_seen, stop_pc, histVars, running, text, entry, logVars,
                   updVars, uiVars>>

\* transcriber.transcribe(audio); an empty text appends nothing.  The TUI
\* worker builds the entry before taking the lock.
ConsTranscribe(t) ==
    /\ cons_pc = "transcribe"
    /\ text' = t
    /\ IF t = ""
       THEN /\ cons_pc' = "loop"
            /\ audio' = <<>>
            /\ UNCHANGED entry
       ELSE /\ cons_pc' = "lock"
            /\ entry' = IF env.mode = "tui"
                        THEN <<TranscriptEntry(transcript_index, t, TimestampLen + 1)>>
                        ELSE entry
            /\ UNCHANGED audio
    /\ UNCHANGED <<env, splitVars, cmdVars, recVars, histVars, running, obtained, logVars,
                   updVars, uiVars>>

\* take the Transcript Log lock; the CLI loop builds the entry under it
ConsLock ==
    /\ cons_pc = "lock"
    /\ log_lock = "none"
    /\ log_lock' = "consumer"
    /\ entry' = IF env.mode = "tui" THEN entry
                ELSE <<TranscriptEntry(transcript_index, text,
                                       TimestampLen + 1)>>
    /\ cons_pc' = "append"
    /\ UNCHANGED <<env, splitVars, cmdVars, recVars, histVars, running, audio, text,
                   obtained, transcripts, transcript_index, updVars, uiVars>>

\* self.transcripts.append(entry)
ConsAppend ==
    /\ cons_pc = "append"
    /\ transcripts' = Append(transcripts, entry[1])
    /\ obtained' = [obtained EXCEPT ![Len(obtained)].entry = entry[1].index]
    /\ cons_pc' = "incr"
    /\ UNCHANGED <<env, splitVars, cmdVars, recVars, histVars, running, audio, text, entry,
                   transcript_index, log_lock, updVars, uiVars>>

IndexStepTwice(i) == i + 2

\* self.transcript_index += 1
IndexStep(i) == i + 1

\* self.transcript_index += 1, then the lock is released
ConsIncr ==
    /\ cons_pc = "incr"
    /\ transcript_index' = IndexStep(transcript_index)
    /\ log_lock' = "none"
    /\ cons_pc' = "loop"
    /\ audio' = <<>>
    /\ text' = ""
    /\ entry' = <<>>
    /\ UNCHANGED <<env, splitVars, cmdVars, recVars, histVars, running, obtained,
                   transcripts, updVars, uiVars>>

\* --------------------------------------------------- MinutesUpdater.update
GetNewTranscriptsAll(ts, lui) == ts

GetNewTranscriptsSkipOne(ts, lui) == SubSeq(ts, lui + 2, Len(ts))

\* get_new_transcripts: transcripts[self.last_update_index:]
GetNewTranscripts(ts, lui) == SubSeq(ts, lui + 1, Len(ts))

NoTranscriptsNever(ts) == FALSE

\* update: `not transcripts`
NoTranscripts(ts) == ts = <<>>

FullSynthesisOnRequest(full, count) == full

\* update: `full or self.update_count == 1`, count the incremented counter
FullSynthesis(full, count) == full \/ count = 1

NewEntriesCountSinceLast(f) ==
    Len(GetNewTranscripts(f.snap, last_update_index))

\* update: new_entries_count of the frame f on its way to the commit
NewEntriesCount(f) ==
    IF f.pc = "gen_full" THEN Len(f.snap) ELSE Len(f.new_transcripts)

RemoveAt(q, i) == SubSeq(q, 1, i - 1) \o SubSeq(q, i + 1, Len(q))

\* UpdateResult(success, minutes, new_entries_count, total_entries_count,
\* update_number, error); error "" is None
UpdateResult(success, minutes, new_entries_count, total_entries_count, update_number, error) ==
    [success |-> success, minutes |-> minutes,
     new_entries_count |-> new_entries_count,
     total_entries_count |-> total_entries_count,
     update_number |-> update_number, error |-> error]

ClearedOnSuccess(ok) == ~ok

\* the busy flag as the worker's `finally:` leaves it, whether the call
\* succeeded (ok) or not
Cleared(ok) == FALSE

\* update() returns res to its caller: the background task clears the busy
\* flag, finalization goes on to save, a direct caller just has the result
Returned(i, res) ==
    /\ frames' = RemoveAt(frames, i)
    /\ result' = <<res>>
    /\ IF frames[i].by = "task"
       THEN updating' = Cleared(res.success) /\ UNCHANGED ui_pc
       ELSE IF frames[i].by = "final"
       THEN ui_pc' = "fin_save" /\ UNCHANGED updating
       ELSE UNCHANGED <<updating, ui_pc>>

\* --------------------------------------------------- MinutesGenerator
MAX_TRANSCRIPT_CHARS == 150000

RECURSIVE TruncatedEntries(_, _, _)
\* generate_full: the loop over reversed(transcripts); `kept` is
\* len(truncated_entries), the number of entries taken from the end
TruncatedEntries(ts, kept, total_len) ==
    IF kept = Len(ts) THEN kept
    ELSE LET entry_len == ts[Len(ts) - kept].len
         IN IF total_len + entry_len + 1 > MAX_TRANSCRIPT_CHARS THEN kept
            ELSE TruncatedEntries(ts, kept + 1, total_len + entry_len + 1)

\* generate_full: the entries whose lines make up transcript_text
TranscriptText(ts) ==
    IF JoinedLen(ts) > MAX_TRANSCRIPT_CHARS
    THEN SubSeq(ts, Len(ts) - TruncatedEntries(ts, 0, 0) + 1, Len(ts))
    ELSE ts

\* generate_full: one backend.generate call on the prompt built from the
\* template and transcript_text
GenerateFull(ts) == [kind |-> "full", transcript |-> TranscriptText(ts)]

\* generate_incremental: one backend.generate call on the prompt built
\* from the current document and the new entries
GenerateIncremental(minutes, new) ==
    [kind |-> "incremental", current_minutes |-> minutes,
     new_transcripts |-> new]

AdvancedToLog(snap) == Len(transcripts)

\* update: `self.last_update_index = len(transcripts)`, of the snapshot
Advanced(snap) == Len(snap)

\* the entry positions a synthesis was given, as a range [from, to)
Synthesis(f) ==
    IF f.pc = "gen_full"
    THEN [kind |-> "full", from |-> 0, to |-> Len(f.snap)]
    ELSE [kind |-> "incremental",
          from |-> f.request.new_transcripts[1].index,
          to |-> f.request.new_transcripts[
                     Len(f.request.new_transcripts)].index + 1]

TentativeNone(count) == count

\* update: `self.update_count += 1`
Tentative(count) == count + 1

NotRolledBack(count) == count

\* update: `self.update_count -= 1`
RolledBack(count) == count - 1

\* the updater's session state
UpdaterState ==
    [current_minutes |-> current_minutes,
     last_update_index |-> last_update_index,
     update_count |-> update_count]

\* update() up to the generation call
UpdateStart(i) ==
    /\ i \in 1..Len(frames)
    /\ frames[i].pc = "start"
    /\ LET f == frames[i]
           new_transcripts == GetNewTranscripts(f.snap, last_update_index)
       IN IF NoTranscripts(f.snap)
          THEN /\ Returned(i, UpdateResult(FALSE, 0, 0, 0, update_count,
                                           "no transcript"))
               /\ UNCHANGED update_count
          ELSE IF FullSynthesis(f.full, Tentative(update_count))
          THEN /\ update_count' = Tentative(update_count)
               /\ frames' = [frames EXCEPT ![i].pc = "gen_full",
                                           ![i].request = GenerateFull(f.snap),
                                           ![i].before = UpdaterState]
               /\ UNCHANGED <<updating, ui_pc, result>>
          ELSE IF new_transcripts = <<>>
          THEN /\ update_count' = RolledBack(Tentative(update_count))
               /\ Returned(i, UpdateResult(TRUE, current_minutes, 0,
                                           Len(f.snap),
                                           RolledBack(Tentative(update_count)),
                                           ""))
          ELSE /\ update_count' = Tentative(update_count)
               /\ frames' = [frames EXCEPT ![i].pc = "gen_incr",
                                           ![i].new_transcripts = new_transcripts,
                                           ![i].request =
                                               GenerateIncremental(
                                                   current_minutes,
                                                   new_transcripts),
                                           ![i].before = UpdaterState]
               /\ UNCHANGED <<updating, ui_pc, result>>
    /\ UNCHANGED <<env, splitVars, cmdVars, recVars, histVars, running, consVars,
                   logVars, last_update_index, current_minutes, gen_count,
                   committed, synthesized, keys, pauses, transcripts_copy,
                   files, declined>>

\* update() from the return of the generation call: commit the document and
\* save the version snapshot, or roll the counter back on an error
UpdateGenerated(i, ok, version_ok) ==
    /\ i \in 1..Len(frames)
    /\ frames[i].pc \in {"gen_full", "gen_incr"}
    /\ LET f == frames[i]
           new_entries_count == NewEntriesCount(f)
       IN IF ok
          THEN /\ gen_count' = gen_count + 1
               /\ current_minutes' = gen_count + 1
               /\ last_update_index' = Advanced(f.snap)
               /\ synthesized' = IF f.pc = "gen_full" THEN <<Synthesis(f)>>
                                 ELSE Append(synthesized, Synthesis(f))
               /\ IF env.version_history /\ ~version_ok
                  THEN /\ update_count' = RolledBack(update_count)
                       /\ UNCHANGED committed
                       /\ Returned(i, UpdateResult(FALSE, gen_count + 1, 0,
                                                   Len(f.snap),
                                                   RolledBack(update_count),
                                                   "exception"))
                  ELSE /\ UNCHANGED update_count
                       /\ committed' = committed + 1
                       /\ Returned(i, UpdateResult(TRUE, gen_count + 1,
                                                   new_entries_count,
                                                   Len(f.snap), update_count,
                                                   ""))
          ELSE /\ update_count' = RolledBack(update_count)
               /\ UNCHANGED <<gen_count, current_minutes, last_update_index,
                              committed, synthesized>>
               /\ Returned(i, UpdateResult(FALSE, current_minutes, 0,
                                           Len(f.snap),
                                           RolledBack(update_count),
                                           "exception"))
    /\ UNCHANGED <<env, splitVars, cmdVars, recVars, histVars, running, consVars,
                   logVars, keys, pauses, transcripts_copy, files, declined>>

\* ------------------------------------------------------------ key handlers
BusyNever(flag) == FALSE

\* _handle_update / _do_update: `if self._updating`
Busy(flag) == flag

LockKeptAfterSnapshot == "control"

\* the holder of the Transcript Log lock when the control thread leaves its
\* `with self._lock:` block
LockAfterSnapshot == "none"

\* a background update task on the snapshot `snap`
Task(snap, full) ==
    [by |-> "task", snap |-> snap, full |-> full, new_transcripts |-> <<>>,
     request |-> <<>>, before |-> <<>>, pc |-> "start"]

\* the busy test and the snapshot: a request that finds the flag set is
\* declined, any other takes the lock and copies the log
Snapshot(position) ==
    IF Busy(updating)
    THEN /\ declined' = declined + 1
         /\ UNCHANGED <<log_lock, transcripts_copy, ui_pc>>
    ELSE /\ log_lock = "none"
         /\ log_lock' = "control"
         /\ transcripts_copy' = transcripts
         /\ ui_pc' = position
         /\ UNCHANGED declined

\* _handle_update / _do_update, up to the copy of the log under the lock
HandleUpdate(full) ==
    /\ ui_pc = "idle"
    /\ keys < env.max_keys
    /\ keys' = keys + 1
    /\ Snapshot(IF full THEN "update_full" ELSE "update")
    /\ UNCHANGED <<env, splitVars, cmdVars, recVars, histVars, running, consVars,
                   transcripts, transcript_index, updVars, pauses, files>>

\* the update timer.  run() calls _handle_update when the busy flag is clear;
\* _auto_update returns while busy or paused and when the log has nothing
\* past last_update_index, and calls _do_update otherwise.
AutoUpdate ==
    /\ ui_pc = "idle"
    /\ keys < env.max_keys
    /\ keys' = keys + 1
    /\ IF env.mode = "tui" /\ ~updating
          /\ (is_paused \/ Len(transcripts) - last_update_index = 0)
       THEN /\ is_paused \/ log_lock = "none"
            /\ UNCHANGED <<log_lock, transcripts_copy, ui_pc, declined>>
       ELSE Snapshot("update")
    /\ UNCHANGED <<env, splitVars, cmdVars, recVars, histVars, running, consVars,
                   transcripts, transcript_index, updVars, pauses, files>>

\* _handle_update / _do_update, from the release of the lock: nothing to do
\* on an empty copy, else set the busy flag and start the background task
HandleUpdateStart ==
    /\ ui_pc \in {"update", "update_full"}
    /\ log_lock' = LockAfterSnapshot
    /\ IF transcripts_copy = <<>>
       THEN UNCHANGED <<updating, frames>>
       ELSE /\ updating' = TRUE
            /\ frames' = Append(frames, Task(transcripts_copy,
                                             ui_pc = "update_full"))
    /\ transcripts_copy' = <<>>
    /\ ui_pc' = "idle"
    /\ UNCHANGED <<env, splitVars, cmdVars, recVars, histVars, running, consVars,
                   transcripts, transcript_index, update_count,
                   last_update_index, current_minutes, gen_count, result,
                   committed, synthesized, keys, pauses, files, declined>>

\* _handle_save / action_save, up to the copy of the log under the lock
HandleSave ==
    /\ ui_pc = "idle"
    /\ keys < env.max_keys
    /\ keys' = keys + 1
    /\ log_lock = "none"
    /\ log_lock' = "control"
    /\ transcripts_copy' = transcripts
    /\ ui_pc' = "save"
    /\ UNCHANGED <<env, splitVars, cmdVars, recVars, histVars, running, consVars,
                   transcripts, transcript_index, updVars, pauses, files,
                   declined>>

\* _handle_save / action_save, from the release of the lock: write the copy
HandleSaveWrite ==
    /\ ui_pc = "save"
    /\ log_lock' = LockAfterSnapshot
    /\ files' = IF transcripts_copy = <<>> THEN files
                ELSE [files EXCEPT !.transcript = <<transcripts_copy>>]
    /\ transcripts_copy' = <<>>
    /\ ui_pc' = "idle"
    /\ UNCHANGED <<env, splitVars, cmdVars, recVars, histVars, running, consVars,
                   transcripts, transcript_index, updVars, keys, pauses,
                   declined>>

\* _handle_pause / action_pause
HandlePause ==
    /\ ui_pc = "idle"
    /\ pauses < env.max_pauses
    /\ pauses' = pauses + 1
    /\ is_paused' = ~is_paused
    /\ UNCHANGED <<env, splitVars, cmdVars, audio_queue, buffer, buffer_samples, keep_buffer,
                   stream, is_recording, rec_lock, cb_pc, cb_chunk, cb_seen,
                   stop_pc, histVars, running, consVars, logVars, updVars,
                   ui_pc, keys, transcripts_copy, files, declined>>

\* ------------------------------------------------- command input (TUI)
\* a command worker, started by on_input_submitted
Command == [pc |-> "generate"]

\* on_input_submitted with a non-empty command: refused while there is no
\* document or the busy flag is set, else set the flag and start the worker
InputSubmitted ==
    /\ env.mode = "tui"
    /\ ui_pc = "idle"
    /\ submitted < env.max_commands
    /\ submitted' = submitted + 1
    /\ IF current_minutes = 0 \/ updating
       THEN UNCHANGED <<updating, commands>>
       ELSE /\ updating' = TRUE
            /\ commands' = Append(commands, Command)
    /\ UNCHANGED <<env, splitVars, recVars, histVars, running, consVars,
                   logVars, frames, update_count, last_update_index,
                   current_minutes, gen_count, result, committed, synthesized,
                   uiVars>>

\* _send_to_claude: the generation call returns the revised document, which
\* replaces the current one, or raises; either way the flag is cleared
SendToClaude(i, ok) ==
    /\ i \in 1..Len(commands)
    /\ commands[i].pc = "generate"
    /\ IF ok
       THEN /\ gen_count' = gen_count + 1
            /\ current_minutes' = gen_count + 1
       ELSE UNCHANGED <<gen_count, current_minutes>>
    /\ updating' = Cleared(ok)
    /\ commands' = RemoveAt(commands, i)
    /\ UNCHANGED <<env, splitVars, recVars, histVars, running, consVars,
                   logVars, frames, update_count, last_update_index, result,
                   committed, synthesized, uiVars, submitted>>

\* ----------------------------------------- _finalize / action_quit
\* clear the running flag and call recorder.stop()
Quit ==
    /\ ui_pc = "idle"
    /\ running' = FALSE
    /\ ui_pc' = "fin_stop"
    /\ stop_pc' = "begin"
    /\ UNCHANGED <<env, splitVars, cmdVars, audio_queue, buffer, buffer_samples, keep_buffer,
                   stream, is_recording, is_paused, rec_lock, cb_pc,
                   cb_chunk, cb_seen, histVars, consVars, logVars, updVars,
                   keys, pauses, transcripts_copy, files, declined>>

\* the final snapshot of the log, under the lock
FinSnapshot ==
    /\ ui_pc = "fin_snap"
    /\ log_lock = "none"
    /\ log_lock' = "control"
    /\ transcripts_copy' = transcripts
    /\ ui_pc' = "fin_decide"
    /\ UNCHANGED <<env, splitVars, cmdVars, recVars, histVars, running, consVars,
                   transcripts, transcript_index, updVars, keys, pauses,
                   files, declined>>

\* the final update call on the snapshot `snap`
Final(snap, full) ==
    [by |-> "final", snap |-> snap, full |-> full, new_transcripts |-> <<>>,
     request |-> <<>>, before |-> <<>>, pc |-> "start"]

\* release the lock; the final update: full when there is no document yet,
\* incremental when there are new entries, none otherwise
FinDecide ==
    /\ ui_pc = "fin_decide"
    /\ log_lock' = LockAfterSnapshot
    /\ IF transcripts_copy = <<>>
       THEN /\ ui_pc' = "exited"
            /\ UNCHANGED frames
       ELSE IF current_minutes = 0
       THEN /\ frames' = Append(frames, Final(transcripts_copy, TRUE))
            /\ ui_pc' = "fin_update"
       ELSE IF GetNewTranscripts(transcripts_copy, last_update_index) # <<>>
       THEN /\ frames' = Append(frames, Final(transcripts_copy, FALSE))
            /\ ui_pc' = "fin_update"
       ELSE /\ ui_pc' = "fin_save"
            /\ UNCHANGED frames
    /\ UNCHANGED <<env, splitVars, cmdVars, recVars, histVars, running, consVars,
                   transcripts, transcript_index, updating, update_count,
                   last_update_index, current_minutes, gen_count, result,
                   committed, synthesized, keys, pauses, transcripts_copy,
                   files, declined>>

\* updater.save(transcripts_copy)
FinSave ==
    /\ ui_pc = "fin_save"
    /\ files' = [minutes |-> <<current_minutes>>,
                 transcript |-> <<transcripts_copy>>]
    /\ ui_pc' = "exited"
    /\ UNCHANGED <<env, splitVars, cmdVars, recVars, histVars, running, consVars, logVars,
                   updVars, keys, pauses, transcripts_copy, declined>>

\* ------------------------------------------------------------ specification
Next ==
    \/ Run
    \/ \E n \in env.blocks : AudioCallbackPaused(n)
    \/ \E n \in env.blocks : AudioCallback(n)
    \/ CbEvict
    \/ CbReput
    \/ StopStream
    \/ StopLock
    \/ StopFlush
    \/ ConsLoop
    \/ ConsGet
    \/ \E t \in env.speech : ConsTranscribe(t)
    \/ ConsLock
    \/ ConsAppend
    \/ ConsIncr
    \/ \E i \in 1..Len(frames) : UpdateStart(i)
    \/ \E i \in 1..Len(frames), ok \in BOOLEAN :
         \E version_ok \in (IF env.version_history /\ ok THEN BOOLEAN ELSE {TRUE}) :
           UpdateGenerated(i, ok, version_ok)
    \/ \E full \in BOOLEAN : HandleUpdate(full)
    \/ AutoUpdate
    \/ HandleUpdateStart
    \/ HandleSave
    \/ HandleSaveWrite
    \/ HandlePause
    \/ InputSubmitted
    \/ \E i \in 1..Len(commands), ok \in BOOLEAN : SendToClaude(i, ok)
    \/ Quit
    \/ FinSnapshot
    \/ FinDecide
    \/ FinSave

Spec == Init /\ [][Next]_vars

\* ------------------------------------------- MapReduceGenerator.generate
\* Replies of the boundary-detection backend, as texts.
ReplyAlphabet == {"0", "1", "2", "5", ",", " ", "x", "-"}

Texts(alphabet, n) == UNION {[1..k -> alphabet] : k \in 0..n}

CuratedReplies ==
    {Nashi, <<" ">> \o Nashi \o <<"\n">>, <<"\n", " ">>,
     <<"5", ",", "1", "2", ",", "2", "3">>,
     <<"2", "3", ",", " ", "1", "2", ",", " ", "5">>,
     <<"3", ",", "1", ",", "\n", "2">>,
     <<"+", "2", ",", "2">>, Nashi \o <<",", "1">>}

\* what a backend call may do: raise (<<>>) or return a text (<<text>>)
Outcomes(texts) == {<<>>} \cup {<<t>> : t \in texts}

CuratedOutcomes == Outcomes(CuratedReplies)

\* every short reply over ReplyAlphabet
ShortOutcomes == Outcomes(Texts(ReplyAlphabet, MaxReplyLen))

\* Short transcripts over a few entry lengths around the two limits.
ShortTranscripts == {Transcript(l) : l \in Texts(EntryLens, MaxEntries)}

\* Five entries scanned two at a time.
TenThousands == Transcript(<<10000, 10000, 10000, 10000, 10000>>)

\* One window of five entries, scanned once.
FiveEntries == Transcript(<<4500, 4500, 4500, 4500, 4500>>)

\* Scenario B: 25 entries that render to 25,000 characters, evenly long or
\* with twelve short entries in front.
ScenarioBTranscripts ==
    {Transcript([i \in 1..25 |-> IF i = 25 THEN 1000 ELSE 999]),
     Transcript([i \in 1..25 |-> IF i <= 12 THEN 12
                                 ELSE IF i = 25 THEN 1924 ELSE 1909])}

\* the callers of generate: short transcripts or Scenario B with the curated
\* replies, the five entries with every short reply
EnvsSplit ==
    { [mode |-> "split", profile |-> p] : p \in {"short", "five", "B"} }

\* the transcripts the caller may hand over
Inputs ==
    IF env.profile = "short" THEN ShortTranscripts \cup {TenThousands}
    ELSE IF env.profile = "five" THEN {FiveEntries}
    ELSE ScenarioBTranscripts

\* what the boundary-detection backend may do
Replies == IF env.profile = "five" THEN ShortOutcomes ELSE CuratedOutcomes

InitSplit ==
    /\ env \in EnvsSplit
    /\ SessionInit
    /\ SplitIdle

\* a caller hands a transcript to MapReduceGenerator.generate
Generate(ts) ==
    /\ mr_pc = "idle"
    /\ transcripts = <<>>
    /\ transcripts' = ts
    /\ mr_pc' = "split"
    /\ UNCHANGED <<env, boundaries, window_start, chunks, points_list,
                   backend_calls, reply, detected, recVars, histVars,
                   running, consVars, transcript_index, log_lock, updVars,
                   uiVars, cmdVars>>

\* split up to the boundary scan: nothing to split, or below the threshold
Split ==
    /\ mr_pc = "split"
    /\ IF transcripts = <<>>
       THEN chunks' = <<>> /\ mr_pc' = "map"
       ELSE IF WithinThreshold(JoinedLen(transcripts))
       THEN chunks' = <<WholeChunk(transcripts)>> /\ mr_pc' = "map"
       ELSE chunks' = <<>> /\ mr_pc' = "scan"
    /\ UNCHANGED <<env, boundaries, window_start, points_list, backend_calls,
                   reply, detected, sessionVars>>

RecordedBoundaryOfRest(found, ws, count) ==
    IF found # <<>> THEN found[1] ELSE ws + ((Len(transcripts) - ws) \div 2)

\* the boundary recorded by one pass of the scan loop
RecordedBoundary(found, ws, count) ==
    IF found # <<>> THEN found[1] ELSE MidPoint(ws, count)

\* _detect_boundaries: one pass of the while loop with a backend call that
\* returns the text r[1], or raises when r is <<>>
DetectBoundary ==
    /\ mr_pc = "scan"
    /\ ScanContinues(transcripts, window_start)
    /\ Len(boundaries) < MaxScan
    /\ \E r \in Replies :
         LET w == Window(transcripts, window_start)
             found == IF r = <<>> THEN <<>>
                      ELSE ParseBoundaries(r[1], window_start,
                                           window_start + w.count)
             b == RecordedBoundary(found, window_start, w.count)
         IN /\ backend_calls' = Append(backend_calls,
                                       [kind |-> "boundary",
                                        start |-> window_start,
                                        count |-> w.count,
                                        forced |-> found = <<>>,
                                        chars |-> WindowTextLen(transcripts,
                                                                window_start,
                                                                w.count)])
            /\ reply' = r
            /\ detected' = found
            /\ boundaries' = Append(boundaries, b)
            /\ window_start' = b
    /\ UNCHANGED <<env, mr_pc, chunks, points_list, sessionVars>>

\* _detect_boundaries returns and split builds the chunks
SplitChunks ==
    /\ mr_pc = "scan"
    /\ ~ScanContinues(transcripts, window_start)
    /\ chunks' = MakeChunks(transcripts, boundaries)
    /\ mr_pc' = "map"
    /\ reply' = <<>>
    /\ detected' = <<>>
    /\ UNCHANGED <<env, boundaries, window_start, points_list, backend_calls,
                   sessionVars>>

LabeledFromZero(chunk_num, total_chunks, res) ==
    [chunk_num |-> chunk_num - 1, total_chunks |-> total_chunks,
     result |-> res]

\* the label '## part chunk_num/total_chunks' in front of an extract
Labeled(chunk_num, total_chunks, res) ==
    [chunk_num |-> chunk_num, total_chunks |-> total_chunks, result |-> res]

\* generate: _extract_points for the next chunk; the backend returns a text
\* (named by the call's number) or raises, which ends generate
ExtractPoints(ok) ==
    /\ mr_pc = "map"
    /\ Len(points_list) < Len(chunks)
    /\ LET i == Len(points_list)
       IN /\ backend_calls' = Append(backend_calls,
                                     [kind |-> "extract",
                                      chunk |-> chunks[i + 1]])
          /\ IF ok
             THEN /\ points_list' =
                       Append(points_list,
                              Labeled(i + 1, Len(chunks),
                                      Len(backend_calls) + 1))
                  /\ UNCHANGED mr_pc
             ELSE /\ mr_pc' = "raised"
                  /\ UNCHANGED points_list
    /\ UNCHANGED <<env, boundaries, window_start, chunks, reply, detected,
                   sessionVars>>

\* generate: _merge_points, the one call after the loop over the chunks
MergePoints(ok) ==
    /\ mr_pc = "map"
    /\ Len(points_list) = Len(chunks)
    /\ backend_calls' = Append(backend_calls,
                               [kind |-> "merge", points |-> points_list,
                                template |-> "template_text"])
    /\ mr_pc' = IF ok THEN "done" ELSE "raised"
    /\ UNCHANGED <<env, boundaries, window_start, chunks, points_list, reply,
                   detected, sessionVars>>

NextSplit ==
    \/ \E ts \in Inputs : Generate(ts)
    \/ Split
    \/ DetectBoundary
    \/ SplitChunks
    \/ \E ok \in BOOLEAN : ExtractPoints(ok)
    \/ \E ok \in BOOLEAN : MergePoints(ok)

SpecSplit == InitSplit /\ [][NextSplit]_vars

\* --------------------------------------------- serialized update calls
\* rendered entry lengths around half of MAX_TRANSCRIPT_CHARS
LongEntryLens == {74999, 75000}

\* A caller of MinutesUpdater.update that makes one call at a time, on
\* snapshots of a log that grows at any moment.
EnvsUpdater ==
    { [mode |-> "updater", version_history |-> v,
       lens |-> {TimestampLen + 1}] : v \in BOOLEAN }
    \cup { [mode |-> "updater", version_history |-> FALSE,
            lens |-> LongEntryLens] }

InitUpdater ==
    /\ env \in EnvsUpdater
    /\ SessionInit
    /\ SplitIdle

\* the consumer appends an entry to the Transcript Log
AppendEntry ==
    /\ Len(transcripts) < MaxLog
    /\ \E n \in env.lens :
         transcripts' = Append(transcripts,
                               TranscriptEntry(transcript_index, "t", n))
    /\ transcript_index' = IndexStep(transcript_index)
    /\ UNCHANGED <<env, splitVars, cmdVars, recVars, histVars, running, consVars,
                   log_lock, updVars, uiVars>>

\* update(snap, full) is called while no other call is in flight
CallUpdate(snap, full) ==
    /\ frames = <<>>
    /\ keys < MaxUpdates
    /\ keys' = keys + 1
    /\ frames' = <<[by |-> "caller", snap |-> snap, full |-> full,
                    new_transcripts |-> <<>>, request |-> <<>>,
                    before |-> <<>>, pc |-> "start"]>>
    /\ UNCHANGED <<env, splitVars, cmdVars, recVars, histVars, running, consVars,
                   logVars, updating, update_count, last_update_index,
                   current_minutes, gen_count, result, committed,
                   synthesized, ui_pc, pauses, transcripts_copy, files,
                   declined>>

NextUpdater ==
    \/ AppendEntry
    \/ \E snap \in {<<>>, transcripts}, full \in BOOLEAN :
         CallUpdate(snap, full)
    \/ \E i \in 1..Len(frames) : UpdateStart(i)
    \/ \E i \in 1..Len(frames), ok \in BOOLEAN :
         \E version_ok \in (IF env.version_history /\ ok THEN BOOLEAN ELSE {TRUE}) :
           UpdateGenerated(i, ok, version_ok)

SpecUpdater == InitUpdater /\ [][NextUpdater]_vars

\* ------------------------------------------------------------------ claims
RECURSIVE TotalFresh(_)
\* the samples that went into the emitted windows as new audio
TotalFresh(es) == IF es = <<>> THEN 0 ELSE es[1].fresh + TotalFresh(Tail(es))

\* the samples accumulated beyond the step threshold, over all emissions
Excess == TotalFresh(emitted) - Len(emitted) * step_samples

RECURSIVE CommonWithSpan(_, _)
CommonWithSpan(a, r) ==
    IF a = <<>> THEN 0
    ELSE Max(0, Min(a[1].hi, r.hi) - Max(a[1].lo, r.lo))
         + CommonWithSpan(Tail(a), r)

RECURSIVE Common(_, _)
\* the number of samples two arrays have in common
Common(a, b) ==
    IF b = <<>> THEN 0 ELSE CommonWithSpan(a, b[1]) + Common(a, Tail(b))

\* cur starts with the last k samples of prev and shares no other sample
OverlapsBy(prev, cur, k) ==
    /\ k <= ALen(cur)
    /\ k <= ALen(prev)
    /\ AFirst(cur, k) = ALast(prev, k)
    /\ Common(prev, cur) = k

Newest(q) == q[Len(q)]

\* C1: the Bounded Chunk Queue never holds more than N = 10 windows, under
\* any interleaving of callback pushes, the stop-time flush and consumer pops.
QueueBounded == Len(audio_queue) <= QueueMaxsize

\* C1 witness: the queue is full after a window was pushed into a full queue.
QueueFullAfterOverflow ==
    /\ Len(audio_queue) = QueueMaxsize
    /\ Len(emitted) > QueueMaxsize
    /\ cb_pc = "idle"

\* C2: a callback that found the queue full returns with exactly the oldest
\* window removed and the new window inserted as the newest, so the queue
\* again holds N windows.
EvictsExactlyOldest ==
    [][(cb_pc # "idle" /\ cb_pc' = "idle")
         => audio_queue' = Append(Tail(cb_seen), cb_chunk)]_vars

\* C3: when a callback invocation that emitted a window returns, that window
\* is the newest item of the queue.
NeverDropsNewest ==
    [][((cb_pc' = "idle" /\ Len(emitted') > Len(emitted))
          \/ (cb_pc # "idle" /\ cb_pc' = "idle"))
         => /\ audio_queue' # <<>>
            /\ Newest(audio_queue') = emitted'[Len(emitted')].chunk]_vars

\* C4: the capture callback never waits: whatever the queue holds and
\* whatever the consumer does, an invocation can start and run to its return
\* or to queue.Full, and the insert after an eviction does not wait either
\* (the eviction itself, get_nowait, returns or raises at once).
CallbackNeverBlocks ==
    /\ cb_pc = "reput" => CbReputReady
    /\ (stream /\ cb_pc = "idle" /\ ~is_paused)
         => \A n \in env.blocks : CbStartReady(n)

\* C4 witness: the callback is handling an overflow while the consumer has
\* been halted.
CallbackOverflowsWithoutConsumer ==
    /\ cb_pc = "reput"
    /\ cons_pc = "done"

\* C5: every window placed on the queue, by the callback or by stop(), is at
\* most window_samples long.
WindowsWithinLength ==
    /\ \A i \in 1..Len(audio_queue) : ALen(audio_queue[i]) <= window_samples
    /\ \A i \in 1..Len(emitted) : ALen(emitted[i].chunk) <= window_samples
    /\ \A i \in 1..Len(flushed) : ALen(flushed[i]) <= window_samples

\* C5 witness: a window was cut to the window length and stop() has flushed
\* a final window.
CutWindowAndFlush ==
    /\ flushed # <<>>
    /\ \E i \in 2..Len(emitted) :
         /\ ALen(emitted[i].chunk) = window_samples
         /\ Min(window_samples - step_samples, ALen(emitted[i-1].chunk))
              + emitted[i].fresh > window_samples

\* C6 as stated: consecutive windows overlap by exactly
\* min(window_samples - step_samples, length of the earlier window).
OverlapIsKeepOrHistory ==
    \A i \in 2..Len(emitted) :
        OverlapsBy(emitted[i-1].chunk, emitted[i].chunk,
                   Min(window_samples - step_samples, ALen(emitted[i-1].chunk)))

\* C6 amended: consecutive windows overlap by exactly
\* max(0, min(window_samples - step_samples, length of the earlier window,
\* window_samples - f)), f being the number of newly accumulated samples of
\* the later window.
OverlapIsKeepHistoryOrRoom ==
    \A i \in 2..Len(emitted) :
        OverlapsBy(emitted[i-1].chunk, emitted[i].chunk,
                   Max(0, Min(Min(window_samples - step_samples,
                                  ALen(emitted[i-1].chunk)),
                              window_samples - emitted[i].fresh)))

\* C6 witness: a later window whose new samples left room for only part of
\* the retained tail.
OverlapShortened ==
    \E i \in 2..Len(emitted) :
        /\ window_samples - emitted[i].fresh
             < Min(window_samples - step_samples, ALen(emitted[i-1].chunk))
        /\ window_samples - emitted[i].fresh > 0

ScenarioAFed ==
    /\ env = EnvScenarioA
    /\ calls = 3
    /\ accepted = 3 * (16000 * 5)

\* C8 as stated: scenario A gives 3 windows of 80,000, 160,000 and 160,000
\* samples, consecutive windows overlapping by 160,000 samples.
ScenarioAAsStated ==
    ScenarioAFed =>
        /\ Len(emitted) = 3
        /\ ALen(emitted[1].chunk) = 80000
        /\ ALen(emitted[2].chunk) = 160000
        /\ ALen(emitted[3].chunk) = 160000
        /\ OverlapsBy(emitted[1].chunk, emitted[2].chunk, 160000)
        /\ OverlapsBy(emitted[2].chunk, emitted[3].chunk, 160000)

\* C8 amended: scenario A gives 3 windows of 80,000, 160,000 and 240,000
\* samples; the second overlaps the first by 80,000 samples and the third
\* overlaps the second by 160,000 samples.
ScenarioAWindows ==
    ScenarioAFed =>
        /\ Len(emitted) = 3
        /\ ALen(emitted[1].chunk) = 80000
        /\ ALen(emitted[2].chunk) = 160000
        /\ ALen(emitted[3].chunk) = 240000
        /\ OverlapsBy(emitted[1].chunk, emitted[2].chunk, 80000)
        /\ OverlapsBy(emitted[2].chunk, emitted[3].chunk, 160000)

\* C8 witness: scenario A after its three feeds.
ScenarioAReached == ScenarioAFed /\ cb_pc = "idle"

\* C9: the flush of stop() appends what has accumulated below the step
\* threshold to the queue as one final window and empties the accumulation
\* buffer; when nothing has accumulated it enqueues nothing.
StopFlushesRemainder ==
    [][(stop_pc = "flush" /\ stop_pc' = "done")
         => IF accepted > TotalFresh(emitted)
            THEN /\ Len(audio_queue') = Len(audio_queue) + 1
                 /\ SubSeq(audio_queue', 1, Len(audio_queue)) = audio_queue
                 /\ ALen(Newest(audio_queue')) = accepted - TotalFresh(emitted)
                 /\ ALen(Newest(audio_queue')) < step_samples
                 /\ Newest(audio_queue') = Newest(flushed')
                 /\ Len(flushed') = 1
                 /\ buffer' = <<>>
                 /\ buffer_samples' = 0
            ELSE /\ audio_queue' = audio_queue
                 /\ flushed' = <<>>
                 /\ buffer' = <<>>
                 /\ buffer_samples' = 0]_vars

\* C9 witness: stop() has returned after flushing a window made of more than
\* one block.
StopFlushedRemainder ==
    /\ stop_pc = "done"
    /\ Len(flushed) = 1
    /\ ALen(flushed[1]) > 1

\* C10: the i-th entry of the Transcript Log (0-based) has index i, and the
\* next-index counter equals the log length whenever the lock is free.
LogIndexed ==
    /\ \A i \in 1..Len(transcripts) : transcripts[i].index = i - 1
    /\ log_lock = "none" => transcript_index = Len(transcripts)

\* C10 witness: entries were appended around an update snapshot and a save.
LogAppendedAroundSnapshots ==
    /\ Len(transcripts) >= 2
    /\ update_count >= 1
    /\ files.transcript # <<>>
    /\ Len(files.transcript[1]) < Len(transcripts)

\* ------------------------------------------------------ splitter claims
\* split has returned its chunks to generate
SplitReturned == mr_pc \in {"map", "done", "raised"}

RECURSIVE ConcatEntries(_)
ConcatEntries(cs) ==
    IF cs = <<>> THEN <<>> ELSE cs[1].entries \o ConcatEntries(Tail(cs))

BoundaryCalls == SelectSeq(backend_calls, LAMBDA c : c.kind = "boundary")
ExtractCalls == SelectSeq(backend_calls, LAMBDA c : c.kind = "extract")
MergeCalls == SelectSeq(backend_calls, LAMBDA c : c.kind = "merge")

\* C11: for a non-empty transcript, whenever split returns, the chunks'
\* entries concatenated in order are the transcript, and the chunks are
\* non-empty, contiguous index ranges from 0 to n-1.
ChunksCoverTranscript ==
    (SplitReturned /\ transcripts # <<>>) =>
        /\ ConcatEntries(chunks) = transcripts
        /\ chunks # <<>>
        /\ chunks[1].start_index = 0
        /\ chunks[Len(chunks)].end_index = Len(transcripts) - 1
        /\ \A k \in 1..Len(chunks) :
             /\ chunks[k].start_index <= chunks[k].end_index
             /\ Len(chunks[k].entries) =
                  chunks[k].end_index - chunks[k].start_index + 1
             /\ k < Len(chunks) =>
                  chunks[k + 1].start_index = chunks[k].end_index + 1

\* C11 witness: split returned three or more chunks after a scan that used
\* both a detected boundary and a forced one.
SplitIntoSeveralChunks ==
    /\ SplitReturned
    /\ Len(chunks) >= 3
    /\ \E k \in 1..Len(BoundaryCalls) : BoundaryCalls[k].forced
    /\ \E k \in 1..Len(BoundaryCalls) : ~BoundaryCalls[k].forced

\* C12: a non-empty transcript that renders to at most CHUNK_THRESHOLD
\* characters comes back as the single chunk 0..n-1, without a backend call
\* by split.
SmallTranscriptOneChunk ==
    (SplitReturned /\ transcripts # <<>>
       /\ JoinedLen(transcripts) <= CHUNK_THRESHOLD) =>
        /\ chunks = <<Chunk(transcripts, 0, Len(transcripts) - 1)>>
        /\ BoundaryCalls = <<>>

\* C12 witness: a transcript of several entries that renders to exactly
\* CHUNK_THRESHOLD characters went through split.
ThresholdTranscriptSplit ==
    /\ SplitReturned
    /\ Len(transcripts) >= 2
    /\ JoinedLen(transcripts) = CHUNK_THRESHOLD

\* C13, as stated: every pass of the boundary scan records a boundary
\* strictly greater than the window_start it began with.
ScanAdvances ==
    [][(mr_pc = "scan" /\ boundaries' # boundaries) =>
          boundaries'[Len(boundaries')] > window_start]_vars

\* the items of a comma-separated text, as pairs <<first, last>> of
\* positions: maximal stretches without a comma, possibly empty
ItemSpans(t) ==
    {sp \in (1..(Len(t) + 1)) \X (0..Len(t)) :
        /\ sp[2] >= sp[1] - 1
        /\ sp[1] = 1 \/ t[sp[1] - 1] = ","
        /\ sp[2] = Len(t) \/ t[sp[2] + 1] = ","
        /\ \A k \in sp[1]..sp[2] : t[k] # ","}

\* the item is an integer, blanks aside, and its value is v
ItemIs(t, sp, v) ==
    LET n == PyInt(ReplaceSpace(SubSeq(t, sp[1], sp[2])))
    IN n.ok /\ n.value = v

Occurrences(l, v) == Cardinality({k \in 1..Len(l) : l[k] = v})

\* C14: a reply of "nashi" or of whitespace only yields no boundary; in any
\* reply, read as a comma-separated list, exactly the items that are
\* integers strictly between window_start and window_end are returned, each
\* as often as it occurs, in ascending order.
BoundariesParsedAsStated ==
    (mr_pc = "scan" /\ reply # <<>>) =>
        LET t == reply[1]
            call == backend_calls[Len(backend_calls)]
            lo == call.start
            hi == call.start + call.count
        IN /\ (StrStrip(t) = Nashi \/ StrStrip(t) = <<>>) => detected = <<>>
           /\ \A k \in 1..Len(detected) : lo < detected[k] /\ detected[k] < hi
           /\ \A k \in 1..(Len(detected) - 1) : detected[k] <= detected[k + 1]
           /\ \A v \in (lo + 1)..(hi - 1) :
                Occurrences(detected, v) =
                    Cardinality({sp \in ItemSpans(t) : ItemIs(t, sp, v)})

\* C14 witness: the reply "3,1,<newline>2" for the window (0, 3) was parsed:
\* 3 is dropped as the window end, 1 and 2 are returned.
ParsedDroppingAndSorting ==
    /\ mr_pc = "scan"
    /\ reply = << <<"3", ",", "1", ",", "\n", "2">> >>
    /\ backend_calls[Len(backend_calls)].start = 0
    /\ backend_calls[Len(backend_calls)].count = 3
    /\ detected = <<1, 2>>

\* Scenario B: 25 entries that render to 25,000 characters
IsScenarioB == Len(transcripts) = 25 /\ JoinedLen(transcripts) = 25000

\* the 25 entries are equally long, up to one character
EvenEntries ==
    \A i, j \in 1..Len(transcripts) :
        transcripts[i].len - transcripts[j].len \in {-1, 0, 1}

\* C15, as stated: in Scenario B the boundary-detection call is made exactly
\* once, with a window of at most 30,000 characters, and a reply of "nashi"
\* forces the single split at index 12.
ScenarioBAsStated ==
    IsScenarioB =>
        /\ \A k \in 1..Len(BoundaryCalls) :
             BoundaryCalls[k].chars <= BOUNDARY_DETECTION_MAX
        /\ (mr_pc = "scan" /\ Len(backend_calls) = 1 /\ reply = <<Nashi>>)
             => boundaries = <<12>>
        /\ SplitReturned => Len(BoundaryCalls) = 1

\* C15, amended: in Scenario B the first boundary-detection call covers all
\* 25 entries in a window of at most 30,000 characters, and when it yields
\* no boundary ("nashi" included) the forced split is at index 12; that is the
\* only call and the only split when the entries are equally long, while a
\* further call follows whenever the entries from the recorded boundary on
\* still reach CHUNK_THRESHOLD.
ScenarioBFirstCall ==
    IsScenarioB =>
        /\ \A k \in 1..Len(BoundaryCalls) :
             BoundaryCalls[k].chars <= BOUNDARY_DETECTION_MAX
        /\ BoundaryCalls # <<>> =>
             /\ BoundaryCalls[1].start = 0
             /\ BoundaryCalls[1].count = 25
             /\ BoundaryCalls[1].forced => boundaries[1] = 12
        /\ (mr_pc = "scan" /\ Len(backend_calls) = 1 /\ reply = <<Nashi>>)
             => boundaries = <<12>>
        /\ (SplitReturned /\ EvenEntries /\ BoundaryCalls[1].forced) =>
             /\ Len(BoundaryCalls) = 1
             /\ boundaries = <<12>>
        /\ SplitReturned =>
             \A k \in 1..Len(BoundaryCalls) :
                Window(transcripts, BoundaryCalls[k].start).text_len
                    >= CHUNK_THRESHOLD

\* C15 witness: Scenario B with equally long entries was split after one
\* call that yielded no boundary.
ScenarioBForcedOnce ==
    /\ IsScenarioB
    /\ EvenEntries
    /\ SplitReturned
    /\ Len(BoundaryCalls) = 1
    /\ BoundaryCalls[1].forced
    /\ Len(chunks) = 2
    /\ chunks[2].start_index = 12

\* C16: the extraction calls are made for the chunks in ascending order, one
\* each, the i-th extract is labelled i/total (1-based, total the number of
\* chunks), and the merge call is made at most once, after an extraction for
\* every chunk, with the labelled extracts in chunk order and the template;
\* a generate() that completes has made all of these calls.
MapThenReduce ==
    /\ Len(ExtractCalls) <= Len(chunks)
    /\ \A k \in 1..Len(ExtractCalls) : ExtractCalls[k].chunk = chunks[k]
    /\ \A k \in 1..Len(points_list) :
         /\ points_list[k].chunk_num = k
         /\ points_list[k].total_chunks = Len(chunks)
         /\ backend_calls[points_list[k].result].kind = "extract"
         /\ backend_calls[points_list[k].result].chunk = chunks[k]
    /\ Len(MergeCalls) <= 1
    /\ MergeCalls # <<>> =>
         /\ backend_calls[Len(backend_calls)].kind = "merge"
         /\ Len(ExtractCalls) = Len(chunks)
         /\ Len(points_list) = Len(chunks)
         /\ MergeCalls[1].points = points_list
         /\ MergeCalls[1].template = "template_text"
    /\ mr_pc = "done" => Len(MergeCalls) = 1

\* C16 witness: generate() completed over three or more chunks.
MergedSeveralChunks == mr_pc = "done" /\ Len(chunks) >= 3

\* ------------------------------------------------------- updater claims
\* the one update call in flight is about to run its first part
CallAtStart == frames # <<>> /\ frames[1].pc = "start"

\* the one update call in flight is waiting for its generation call
CallInSynthesis == frames # <<>> /\ frames[1].pc \in {"gen_full", "gen_incr"}

\* the step is taken by the update call in flight
CallSteps == frames' # frames

\* the updater's session state is left as it is
UpdaterStateKept ==
    /\ update_count' = update_count
    /\ last_update_index' = last_update_index
    /\ current_minutes' = current_minutes

\* C17: update on an empty snapshot returns success=false with the
\* 'no transcript' error, makes no generation call and leaves update_count,
\* last_update_index and the document unchanged.
EmptySnapshotFailsFast ==
    [][(CallAtStart /\ frames[1].snap = <<>> /\ CallSteps) =>
          /\ frames' = <<>>
          /\ result' = <<UpdateResult(FALSE, 0, 0, 0, update_count,
                                      "no transcript")>>
          /\ gen_count' = gen_count
          /\ UpdaterStateKept]_vars

\* C17 witness: an empty snapshot was rejected after documents had been
\* committed.
EmptySnapshotRejected ==
    /\ frames = <<>>
    /\ result # <<>>
    /\ result[1].error = "no transcript"
    /\ update_count >= 1
    /\ last_update_index >= 1

\* C18: while no update has returned success yet (earlier failures
\* included), update on a non-empty snapshot goes to full synthesis whatever
\* the full flag, and when it succeeds update_count is 1 and
\* last_update_index is the snapshot length.
FirstUpdateIsFull ==
    [][/\ (CallAtStart /\ frames[1].snap # <<>> /\ committed = 0
             /\ CallSteps) =>
            (frames' # <<>> /\ frames'[1].pc = "gen_full")
       /\ (CallInSynthesis /\ committed = 0 /\ committed' = 1) =>
            /\ frames[1].pc = "gen_full"
            /\ result'[1].success
            /\ update_count' = 1
            /\ last_update_index' = Len(frames[1].snap)]_vars

\* C18 witness: after an earlier failed attempt, a call without the full
\* flag is in full synthesis.
FirstUpdateAfterFailure ==
    /\ committed = 0
    /\ result # <<>>
    /\ ~result[1].success
    /\ result[1].error = "exception"
    /\ frames # <<>>
    /\ frames[1].pc = "gen_full"
    /\ ~frames[1].full

\* C19: once an update has succeeded, update(full=false) on a snapshot with
\* no entry past last_update_index returns success=true with
\* new_entries_count 0 and the current document, makes no generation call and
\* leaves update_count, last_update_index and the document unchanged.
NothingNewIsNoOp ==
    [][(CallAtStart /\ committed >= 1 /\ ~frames[1].full
          /\ frames[1].snap # <<>>
          /\ Len(frames[1].snap) <= last_update_index /\ CallSteps) =>
          /\ frames' = <<>>
          /\ result' = <<UpdateResult(TRUE, current_minutes, 0,
                                      Len(frames[1].snap), update_count, "")>>
          /\ gen_count' = gen_count
          /\ UpdaterStateKept]_vars

\* C19 witness: an update returned the successful no-op result.
NoOpReturned ==
    /\ frames = <<>>
    /\ committed >= 1
    /\ result # <<>>
    /\ result[1].success
    /\ result[1].new_entries_count = 0
    /\ result[1].minutes = current_minutes

\* C20: when update(full=true) on a non-empty snapshot succeeds,
\* last_update_index is the snapshot length and new_entries_count is the
\* number of entries of the snapshot, whatever last_update_index was.
FullUpdateCountsAll ==
    [][(CallInSynthesis /\ frames[1].full /\ committed' = committed + 1) =>
          /\ result'[1].success
          /\ last_update_index' = Len(frames[1].snap)
          /\ result'[1].new_entries_count = Len(frames[1].snap)
          /\ result'[1].total_entries_count = Len(frames[1].snap)]_vars

\* C20 witness: the last update was a successful incremental one, and a full
\* update is now in synthesis on a longer snapshot.
FullAfterIncremental ==
    /\ result # <<>>
    /\ result[1].success
    /\ result[1].new_entries_count >= 1
    /\ result[1].new_entries_count < result[1].total_entries_count
    /\ last_update_index >= 2
    /\ frames # <<>>
    /\ frames[1].pc = "gen_full"
    /\ frames[1].full
    /\ Len(frames[1].snap) > last_update_index

\* --------------------------------------------- failures inside update
\* C21: when the generation call of an update, full or incremental, fails,
\* the document and last_update_index are as they were before the call, the
\* tentative increment of update_count is taken back, and the call returns
\* success=false with the error and the previous document.
FailedGenerationRollsBack ==
    [][(CallInSynthesis /\ CallSteps /\ gen_count' = gen_count) =>
          /\ frames' = <<>>
          /\ UpdaterState' = frames[1].before
          /\ update_count' = update_count - 1
          /\ ~result'[1].success
          /\ result'[1].error = "exception"
          /\ result'[1].minutes = frames[1].before.current_minutes]_vars

\* C21 witness: with no version history kept, an update on a snapshot with
\* entries past last_update_index failed after documents had been committed.
GenerationFailedAfterCommit ==
    /\ ~env.version_history
    /\ frames = <<>>
    /\ result # <<>>
    /\ ~result[1].success
    /\ result[1].error = "exception"
    /\ committed >= 1
    /\ result[1].minutes = current_minutes
    /\ result[1].total_entries_count > last_update_index

\* C22: whenever update returns success=false, whatever failed inside it,
\* the document, last_update_index and update_count are what they were
\* before the call.
FailureLeavesStateUntouched ==
    [][(frames # <<>> /\ frames' = <<>> /\ ~result'[1].success) =>
          UpdaterState' = (IF frames[1].pc = "start" THEN UpdaterState
                           ELSE frames[1].before)]_vars

\* ------------------------------------------ updates within the session
\* C23: in every reachable state of a session last_update_index is at most
\* the length of the Transcript Log, and no step decreases it.
LastUpdateIndexMonotonic ==
    [][/\ last_update_index' >= last_update_index
       /\ last_update_index' <= Len(transcripts')]_vars

\* C24: at most one MinutesUpdater.update call is in flight at any time,
\* the final update of the shutdown included.
OneUpdateInFlight == Len(frames) <= 1

\* C25: an update request that finds the busy flag set is declined: the
\* step changes neither the updater's state nor the busy flag, takes no
\* snapshot and starts no task; a task is started only by a request that
\* found the flag clear, in the step that sets it, so none runs later on
\* behalf of a declined request.
BusyRequestDeclined ==
    [][/\ (declined' # declined) =>
            /\ updating /\ updating'
            /\ declined' = declined + 1
            /\ UNCHANGED <<frames, update_count, last_update_index,
                           current_minutes, gen_count, result, committed,
                           ui_pc, log_lock, transcripts_copy, files>>
       /\ (updating /\ keys' # keys) =>
            (declined' = declined + 1 \/ ui_pc' = "save")
       /\ (Len(frames') > Len(frames) /\ ui_pc # "fin_decide") =>
            /\ ui_pc \in {"update", "update_full"}
            /\ ~updating /\ updating'
            /\ declined' = declined]_vars

\* C25 witness: a request was declined and the update that was in flight
\* then is still the only one.
RequestDeclinedWhileGenerating ==
    /\ declined >= 1
    /\ updating
    /\ Len(frames) = 1
    /\ frames[1].by = "task"
    /\ frames[1].pc \in {"gen_full", "gen_incr"}
    /\ ui_pc = "idle"

\* C26: once finalization has taken its final snapshot of the Transcript
\* Log, no entry is appended any more.
NoAppendAfterFinalSnapshot ==
    [][(ui_pc \in {"fin_decide", "fin_update", "fin_save", "exited"}) =>
          (transcripts' = transcripts)]_vars

\* the positions at which the control thread is inside a `with self._lock:`
\* block, which it leaves with its next step
SnapshotPositions == {"update", "update_full", "save", "fin_decide"}

\* C27: the control thread holds the Transcript Log lock exactly while it
\* copies the log, so never while an update call runs its generation in a
\* task or in finalization; the lock is then free, or held by the consumer
\* itself, or released by the control thread's next step.
LockOnlyForSnapshot ==
    /\ log_lock \in {"none", "consumer", "control"}
    /\ log_lock = "control" <=> ui_pc \in SnapshotPositions
    /\ ui_pc = "fin_update" => log_lock # "control"
    /\ (\E i \in 1..Len(frames) : frames[i].pc \in {"gen_full", "gen_incr"})
         => (log_lock = "control" => ui_pc \in SnapshotPositions)

\* C27 witness: while a background update waits for its generation call the
\* consumer holds the lock and is about to append past the snapshot.
ConsumerAppendsDuringGeneration ==
    /\ frames # <<>>
    /\ frames[1].by = "task"
    /\ frames[1].pc \in {"gen_full", "gen_incr"}
    /\ log_lock = "consumer"
    /\ cons_pc = "append"
    /\ Len(transcripts) >= Len(frames[1].snap)

\* C28: in serialized calls update_count is the number of calls that
\* returned success=true after a synthesis, one more while a call is in its
\* synthesis, and the update_number of every result is update_count as the
\* call returns.
CountIsCommitted ==
    /\ frames = <<>> =>
         /\ update_count = committed
         /\ result # <<>> => result[1].update_number = update_count
    /\ CallAtStart => update_count = committed
    /\ CallInSynthesis => update_count = committed + 1

\* C28 witness: of four calls two committed a document and the last one
\* returned a failure.
CountAfterMixedCalls ==
    /\ frames = <<>>
    /\ keys = 4
    /\ committed = 2
    /\ update_count = 2
    /\ ~result[1].success

\* ------------------------------------------------- the forced split
\* C29: when a pass of the scan accepts no index, because the reply names
\* none, cannot be parsed or the call raised, the boundary recorded is
\* window_start + floor(window entries / 2) and the scan goes on from it.
ForcedSplitAtWindowMidpoint ==
    [][(mr_pc = "scan" /\ Len(boundaries') > Len(boundaries)
          /\ detected' = <<>>) =>
          LET call == backend_calls'[Len(backend_calls')]
              mid_point == window_start + (call.count \div 2)
          IN /\ call.start = window_start
             /\ call.count = Window(transcripts, window_start).count
             /\ call.forced
             /\ boundaries' = Append(boundaries, mid_point)
             /\ window_start' = mid_point
             /\ mr_pc' = "scan"]_vars

\* C29 witness: the call for a window of two entries raised with four
\* entries left, and the scan resumed one entry on, not two.
ForcedInsideLongerRest ==
    /\ mr_pc = "scan"
    /\ backend_calls # <<>>
    /\ reply = <<>>
    /\ LET call == backend_calls[Len(backend_calls)]
       IN /\ call.forced
          /\ call.count = 2
          /\ Len(transcripts) - call.start = 4
          /\ window_start = call.start + 1
          /\ boundaries[Len(boundaries)] = call.start + 1

\* C30 as stated: accepted candidates lie strictly between the index of the
\* window's first entry and the index of its last entry, and no chunk is
\* empty.
AcceptedStrictlyInsideEntries ==
    /\ (mr_pc = "scan" /\ reply # <<>>) =>
         LET call == backend_calls[Len(backend_calls)]
             first == call.start
             last == call.start + call.count - 1
         IN \A k \in 1..Len(detected) :
              first < detected[k] /\ detected[k] < last
    /\ \A k \in 1..Len(chunks) : chunks[k].entries # <<>>

\* C30: accepted candidates lie after the index of the window's first entry
\* and up to the index of its last entry; an item of the reply equal to the
\* last entry's index is accepted, one equal to the first entry's index or to
\* the index after the last is not; no chunk is empty.
AcceptedInsideWindow ==
    /\ (mr_pc = "scan" /\ reply # <<>>) =>
         LET t == reply[1]
             call == backend_calls[Len(backend_calls)]
             first == call.start
             last == call.start + call.count - 1
         IN /\ \A k \in 1..Len(detected) :
                 first < detected[k] /\ detected[k] <= last
            /\ \A sp \in ItemSpans(t) :
                 (ItemIs(t, sp, last) /\ first < last) =>
                     Occurrences(detected, last) >= 1
    /\ \A k \in 1..Len(chunks) : chunks[k].entries # <<>>

\* C30 witness: split returned chunks cut at a boundary that was the index
\* of the last entry of its window, taken from the reply.
CutAtLastEntryOfWindow ==
    /\ mr_pc \in {"map", "reduce", "done"}
    /\ Len(chunks) >= 2
    /\ \E k \in 1..Len(boundaries) :
         /\ backend_calls[k].kind = "boundary"
         /\ ~backend_calls[k].forced
         /\ boundaries[k] = backend_calls[k].start + backend_calls[k].count - 1
         /\ \E c \in 1..Len(chunks) : chunks[c].start_index = boundaries[k]

\* ------------------------------------------------------ the size budget
\* C31: for a transcript that renders to more than CHUNK_THRESHOLD
\* characters, every Chunk returned by split renders to at most
\* BOUNDARY_DETECTION_MAX characters.
ChunksWithinBudget ==
    (mr_pc \notin {"idle", "split", "scan"}
       /\ JoinedLen(transcripts) > CHUNK_THRESHOLD) =>
        \A k \in 1..Len(chunks) :
            JoinedLen(chunks[k].entries) <= BOUNDARY_DETECTION_MAX

\* ----------------------------------------------- what a synthesis is given
\* C32: a full synthesis makes its single direct generation call on the
\* transcript text only when the snapshot is not large; a snapshot that
\* renders to more than CHUNK_THRESHOLD characters goes through the splitter
\* and the map-reduce generator instead.
DirectCallOnlyWhenSmall ==
    \A i \in 1..Len(frames) :
        (frames[i].pc = "gen_full" /\ frames[i].request.kind = "full") =>
            JoinedLen(frames[i].snap) <= CHUNK_THRESHOLD

\* C33: an incremental synthesis is given the current document and exactly
\* the snapshot entries from position last_update_index on, in order; when
\* it succeeds new_entries_count is their number, last_update_index is the
\* snapshot length and update_count is one more than before the call.
IncrementalGetsNewEntries ==
    [][/\ (CallAtStart /\ frames' # <<>> /\ frames'[1].pc = "gen_incr") =>
            /\ frames'[1].request.kind = "incremental"
            /\ frames'[1].request.current_minutes = current_minutes
            /\ frames'[1].request.new_transcripts =
                   SubSeq(frames[1].snap, last_update_index + 1,
                          Len(frames[1].snap))
       /\ (CallInSynthesis /\ frames[1].pc = "gen_incr"
             /\ committed' = committed + 1) =>
            /\ result'[1].success
            /\ result'[1].new_entries_count =
                   Len(frames[1].request.new_transcripts)
            /\ last_update_index' = Len(frames[1].snap)
            /\ update_count' = frames[1].before.update_count + 1]_vars

\* C33 witness: an incremental update on some but not all entries of its
\* snapshot has succeeded.
IncrementalCommitted ==
    /\ frames = <<>>
    /\ synthesized # <<>>
    /\ synthesized[Len(synthesized)].kind = "incremental"
    /\ result # <<>>
    /\ result[1].success
    /\ result[1].new_entries_count >= 1
    /\ result[1].new_entries_count < result[1].total_entries_count
    /\ last_update_index = result[1].total_entries_count

\* C34: when the snapshot renders to more than MAX_TRANSCRIPT_CHARS, the
\* text of a full synthesis is made of the longest suffix of the entries, in
\* order and uncut, whose newline-joined length is at most
\* MAX_TRANSCRIPT_CHARS.
KeepsLongestFittingSuffix ==
    \A i \in 1..Len(frames) :
        (frames[i].pc = "gen_full"
           /\ JoinedLen(frames[i].snap) > MAX_TRANSCRIPT_CHARS) =>
            LET snap == frames[i].snap
                kept == frames[i].request.transcript
                n == Len(kept)
            IN /\ n <= Len(snap)
               /\ kept = SubSeq(snap, Len(snap) - n + 1, Len(snap))
               /\ JoinedLen(kept) <= MAX_TRANSCRIPT_CHARS
               /\ n < Len(snap) =>
                    JoinedLen(SubSeq(snap, Len(snap) - n, Len(snap)))
                        > MAX_TRANSCRIPT_CHARS

\* C39: in serialized updates the syntheses behind the document are one full
\* synthesis followed by incremental ones whose entry ranges are non-empty,
\* each starting where the one before ended, the last ending at
\* last_update_index: no position is skipped and none is given twice.
SynthesesCoverLog ==
    /\ synthesized = <<>> => last_update_index = 0
    /\ synthesized # <<>> =>
         /\ synthesized[1].kind = "full"
         /\ synthesized[1].from = 0
         /\ \A k \in 2..Len(synthesized) :
              /\ synthesized[k].kind = "incremental"
              /\ synthesized[k].from = synthesized[k - 1].to
              /\ synthesized[k].from < synthesized[k].to
         /\ synthesized[Len(synthesized)].to = last_update_index
         /\ last_update_index <= Len(transcripts)

\* C39 witness: a full synthesis and two incremental ones cover a log of
\* three entries.
ThreeSynthesesCoverLog ==
    /\ frames = <<>>
    /\ Len(synthesized) = 3
    /\ synthesized[1].to = 1
    /\ synthesized[3].to = 3
    /\ Len(transcripts) = 3

\* --------------------------------------------------------------- ordering
\* the windows handed to the queue: those the callback built, then those
\* stop() flushed
Produced == [k \in 1..Len(emitted) |-> emitted[k].chunk] \o flushed

RECURSIVE IsSubsequence(_, _)
\* a is b with some of its items left out, the others in b's order
IsSubsequence(a, b) ==
    IF a = <<>> THEN TRUE
    ELSE IF b = <<>> THEN FALSE
    ELSE IF a[1] = b[1] THEN IsSubsequence(Tail(a), Tail(b))
    ELSE IsSubsequence(a, Tail(b))

\* the indices of the entries appended for the windows obtained, in the
\* order the windows were obtained
EntriesOfObtained ==
    LET marked == SelectSeq(obtained, LAMBDA o : o.entry # -1)
    IN [k \in 1..Len(marked) |-> marked[k].entry]

\* C35: the windows the consumer obtained are, in order, windows handed to
\* the queue with some left out, and the log's entries were appended in the
\* order their windows were obtained.
OrderPreserved ==
    /\ IsSubsequence([k \in 1..Len(obtained) |-> obtained[k].chunk],
                     Produced)
    /\ EntriesOfObtained = [k \in 1..Len(transcripts) |-> transcripts[k].index]

\* C35 witness: after an overflow drop the consumer has obtained two windows
\* and appended an entry for each.
ObtainedAroundDrop ==
    /\ Len(obtained) >= 2
    /\ Len(obtained) < Len(Produced) - Len(audio_queue)
    /\ Len(transcripts) >= 2
    /\ cons_pc = "loop"

\* ---------------------------------------------------------- retained tail
\* C36: after every window emission the retained tail is the last
\* window_samples - step_samples samples of the emitted window (the whole
\* window when it is shorter), none when the step equals the window, and
\* the accumulation buffer is empty.
KeepIsLastKeepSamples ==
    [][(Len(emitted') > Len(emitted) /\ step_samples <= window_samples)
         => /\ keep_buffer' = <<ALast(emitted'[Len(emitted')].chunk,
                                      window_samples - step_samples)>>
            /\ buffer' = <<>>
            /\ buffer_samples' = 0]_vars

\* ---------------------------------------------------- eviction under race
\* C40: the producer discards a queued window only when the queue holds
\* QueueMaxsize windows at the moment of the eviction.
EvictsOnlyFromFullQueue ==
    [][(cb_pc = "full" /\ cb_pc' = "reput")
         => Len(audio_queue) = QueueMaxsize]_vars

\* ------------------------------------------------------------- progress
\* Threads that are able to take their next step take it: stop() and
\* finalization on the main thread, the overflow handling of a running
\* callback, the consumer thread, the update threads and the handlers that
\* have started.  The device delivering a block and the user pressing a key
\* are not required to happen.
Fairness ==
    /\ WF_vars(StopStream) /\ WF_vars(StopLock) /\ WF_vars(StopFlush)
    /\ WF_vars(CbEvict) /\ WF_vars(CbReput)
    /\ WF_vars(ConsLoop) /\ WF_vars(ConsGet)
    /\ WF_vars(\E t \in env.speech : ConsTranscribe(t))
    /\ WF_vars(ConsLock) /\ WF_vars(ConsAppend) /\ WF_vars(ConsIncr)
    /\ WF_vars(\E i \in 1..Len(frames) : UpdateStart(i))
    /\ WF_vars(\E i \in 1..Len(frames), ok \in BOOLEAN, version_ok \in BOOLEAN :
                 UpdateGenerated(i, ok, version_ok))
    /\ WF_vars(\E i \in 1..Len(commands), ok \in BOOLEAN : SendToClaude(i, ok))
    /\ WF_vars(HandleUpdateStart) /\ WF_vars(HandleSaveWrite)
    /\ WF_vars(FinSnapshot) /\ WF_vars(FinDecide) /\ WF_vars(FinSave)

\* Sessions checked for progress: update, save and command requests in
\* both front ends, a device that pauses, and a device whose blocks are half
\* a step long.
EnvLive ==
    { [sample_rate |-> 1, step_duration |-> 2, window_duration |-> 5,
       blocks |-> {2}, max_calls |-> MaxLiveCalls, max_keys |-> MaxKeys,
       max_commands |-> MaxCommands, max_pauses |-> 0, speech |-> {"t"},
       mode |-> m, version_history |-> FALSE] : m \in {"cli", "tui"} }

EnvLivePause ==
    [sample_rate |-> 1, step_duration |-> 2, window_duration |-> 5,
     blocks |-> {2}, max_calls |-> MaxSessionCalls, max_keys |-> 0,
     max_commands |-> 0, max_pauses |-> 1, speech |-> {"t"}, mode |-> "tui",
     version_history |-> FALSE]

EnvsLive == {EnvHalfStep, EnvLivePause} \cup EnvLive

InitLive ==
    /\ env \in EnvsLive
    /\ SessionInit
    /\ SplitIdle

SpecLive == InitLive /\ [][Next]_vars /\ Fairness

\* C37: once finalization has called recorder.stop(), stop() returns and
\* finalization goes on through its final snapshot and save to the end.
StopAlwaysCompletes == (ui_pc = "fin_stop") ~> (ui_pc = "exited")

====
